---- MODULE Spec2Model ----
(***************************************************************************)
(* Model of the suspicion-scoring engine (ProfileAnalyzer) and of the      *)
(* profile cache (CacheManager) of the sus-meter browser extension.        *)
(*                                                                         *)
(* JavaScript numbers are modelled as exact rationals [n, d] in lowest     *)
(* terms (d > 0); optional object properties are modelled as record        *)
(* fields that may be missing from the record's DOMAIN.                    *)
(***************************************************************************)
EXTENDS Integers, Sequences, FiniteSets, TLC

(***************************************************************************)
(* Numbers                                                                 *)
(***************************************************************************)
Abs(x) == IF x < 0 THEN -x ELSE x

RECURSIVE GCD(_, _)
GCD(a, b) == IF b = 0 THEN a ELSE GCD(b, a % b)

Rat(n, d) ==
  LET s == IF d < 0 THEN -1 ELSE 1
      g == GCD(Abs(n), Abs(d))
  IN  [n |-> (s * n) \div g, d |-> (s * d) \div g]

Num(k) == [n |-> k, d |-> 1]

RAdd(x, y) == Rat(x.n * y.d + y.n * x.d, x.d * y.d)
RSub(x, y) == Rat(x.n * y.d - y.n * x.d, x.d * y.d)
RMul(x, y) == Rat(x.n * y.n, x.d * y.d)
RLt(x, y) == x.n * y.d < y.n * x.d
RLe(x, y) == x.n * y.d <= y.n * x.d
RGe(x, y) == RLe(y, x)
RMin(x, y) == IF RLe(x, y) THEN x ELSE y
RMax(x, y) == IF RLe(x, y) THEN y ELSE x

\* Math.max over a non-empty finite set of integers
MaxOf(S) == CHOOSE m \in S : \A x \in S : x <= m

(***************************************************************************)
(* Types (src/types/index.ts)                                              *)
(***************************************************************************)
SuspicionLevel == {"none", "low", "medium", "high", "critical"}

DEFAULT_THRESHOLDS ==
  [ criticalAccountDays      |-> 14,
    highSuspicionAccountDays |-> 30,
    suspiciousAccountDays    |-> 365,
    highRatingThreshold      |-> 2000,
    rapidRatingGainDays      |-> 30,
    rapidRatingGainAmount    |-> 300,
    minGamesRequired         |-> 50,
    suspiciousWinRate        |-> 75,
    suspicionAlertLevel      |-> "high" ]

\* { ...a, ...b } : object spread, the properties of b win
Spread(a, b) ==
  [k \in (DOMAIN a) \cup (DOMAIN b) |-> IF k \in DOMAIN b THEN b[k] ELSE a[k]]

\* obj.field || 0 for an optional numeric property
OrZero(obj, field) == IF field \in DOMAIN obj THEN obj[field] ELSE 0

\* truthiness of an optional boolean property
Truthy(obj, field) == field \in DOMAIN obj /\ obj[field] = TRUE

(***************************************************************************)
(* ProfileAnalyzer (src/utils/messaging.ts, second class body)             *)
(***************************************************************************)
\* mutation of highestRatingOf: only the blitz rating is looked at
highestRatingOfBlitz(profile) == OrZero(profile.ratings, "blitz")

highestRatingOf(profile) ==
  MaxOf({ OrZero(profile.ratings, "bullet"),
          OrZero(profile.ratings, "blitz"),
          OrZero(profile.ratings, "rapid"),
          OrZero(profile.ratings, "classical") })

calculateAccountAgeScore(profile, th) ==
  LET accountAge          == profile.accountAge
      criticalThreshold   == th.criticalAccountDays
      highThreshold       == th.highSuspicionAccountDays
      suspiciousThreshold == th.suspiciousAccountDays
      highestRating       == highestRatingOf(profile)
      age                 == ToString(accountAge)
      rating              == ToString(highestRating)
  IN
  IF accountAge < criticalThreshold THEN
    LET ageRatio  == Rat(accountAge, criticalThreshold)
        baseScore == RMul(Num(30), RSub(Num(1), ageRatio))
    IN  IF highestRating > th.highRatingThreshold THEN
          [ score  |-> RAdd(baseScore, Num(10)),
            reason |-> <<"Very new account (" \o age \o " days) with high rating ("
                         \o rating \o ")">> ]
        ELSE IF highestRating > 1700 THEN
          [ score  |-> RAdd(baseScore, Num(5)),
            reason |-> <<"Very new account (" \o age \o " days) with "
                         \o rating \o " rating">> ]
        ELSE
          [ score  |-> baseScore,
            reason |-> <<"Account only " \o age \o " days old">> ]
  ELSE IF accountAge < highThreshold THEN
    LET ageRatio  == Rat(accountAge - criticalThreshold,
                         highThreshold - criticalThreshold)
        baseScore == RAdd(Num(20), RMul(Num(10), RSub(Num(1), ageRatio)))
    IN  IF highestRating > th.highRatingThreshold THEN
          [ score  |-> RAdd(baseScore, Num(8)),
            reason |-> <<"New account (" \o age \o " days) with high rating ("
                         \o rating \o ")">> ]
        ELSE IF highestRating > 1700 THEN
          [ score  |-> RAdd(baseScore, Num(4)),
            reason |-> <<"New account (" \o age \o " days) with "
                         \o rating \o " rating">> ]
        ELSE
          [ score  |-> baseScore,
            reason |-> <<"New account (" \o age \o " days old)">> ]
  ELSE IF accountAge < suspiciousThreshold THEN
    LET ageRatio  == Rat(accountAge - highThreshold,
                         suspiciousThreshold - highThreshold)
        baseScore == RAdd(Num(10), RMul(Num(10), RSub(Num(1), ageRatio)))
    IN  IF highestRating > th.highRatingThreshold THEN
          [ score  |-> RAdd(baseScore, Num(6)),
            reason |-> <<"Relatively new account (" \o age
                         \o " days) with high rating (" \o rating \o ")">> ]
        ELSE IF highestRating > 1700 THEN
          [ score  |-> RAdd(baseScore, Num(3)),
            reason |-> <<"Account " \o age \o " days old with "
                         \o rating \o " rating">> ]
        ELSE
          [ score  |-> baseScore,
            reason |-> <<"Account " \o age \o " days old">> ]
  ELSE
    [ score |-> Num(0), reason |-> <<>> ]

\* mutation of getExpectedGamesForRating: every rating expects 50 games
getExpectedGamesForRatingFlat(rating) == 50

getExpectedGamesForRating(rating) ==
  IF rating < 1200 THEN 50
  ELSE IF rating < 1500 THEN 100
  ELSE IF rating < 1800 THEN 300
  ELSE IF rating < 2000 THEN 500
  ELSE IF rating < 2200 THEN 1000
  ELSE IF rating < 2400 THEN 2000
  ELSE 3000

calculateRatingVsGamesScore(profile, th) ==
  LET totalGames          == profile.gameStats.total
      highestRating       == highestRatingOf(profile)
      minGames            == th.minGamesRequired
      highRatingThreshold == th.highRatingThreshold
      games               == ToString(totalGames)
      rating              == ToString(highestRating)
  IN
  IF totalGames < minGames /\ highestRating > highRatingThreshold THEN
    [ score  |-> Num(25),
      reason |-> <<"Only " \o games \o " games with " \o rating \o " rating">> ]
  \* totalGames < minGames * 0.6
  ELSE IF 10 * totalGames < 6 * minGames /\ highestRating > 1800 THEN
    [ score  |-> Num(20),
      reason |-> <<"Few games (" \o games \o ") for " \o rating \o " rating">> ]
  ELSE IF totalGames < minGames * 2 /\ highestRating > 2200 THEN
    [ score |-> Num(15), reason |-> <<"Low game count for master-level rating">> ]
  \* totalGames < expectedGamesForRating * 0.3
  ELSE IF 10 * totalGames < 3 * getExpectedGamesForRating(highestRating) THEN
    [ score |-> Num(10), reason |-> <<"Unusually fast rating progression">> ]
  ELSE
    [ score |-> Num(0), reason |-> <<>> ]

\* mutation of calculateWinRateScore: the number of games is not looked at
calculateWinRateScoreAnyGames(profile, th) ==
  LET winRate == profile.gameStats.winRate
      rate    == ToString(winRate)
  IN
  IF winRate > 85 THEN
    [ score  |-> Num(20),
      reason |-> <<rate \o "% win rate over "
                     \o ToString(profile.gameStats.total) \o " games">> ]
  ELSE IF winRate > 80 THEN
    [ score |-> Num(15), reason |-> <<"Very high win rate: " \o rate \o "%">> ]
  ELSE IF winRate > th.suspiciousWinRate THEN
    [ score |-> Num(10), reason |-> <<"Unusually high win rate: " \o rate \o "%">> ]
  ELSE IF winRate < 15 THEN
    [ score |-> Num(10), reason |-> <<"Suspiciously low win rate: " \o rate \o "%">> ]
  ELSE
    [ score |-> Num(0), reason |-> <<>> ]

\* mutation of calculateWinRateScore: the first row's comparisons are not strict
calculateWinRateScoreInclusive(profile, th) ==
  LET winRate    == profile.gameStats.winRate
      totalGames == profile.gameStats.total
      rate       == ToString(winRate)
  IN
  IF winRate >= 85 /\ totalGames >= 20 THEN
    [ score  |-> Num(20),
      reason |-> <<rate \o "% win rate over " \o ToString(totalGames) \o " games">> ]
  ELSE IF winRate > 80 /\ totalGames > 50 THEN
    [ score |-> Num(15), reason |-> <<"Very high win rate: " \o rate \o "%">> ]
  ELSE IF winRate > th.suspiciousWinRate /\ totalGames > 100 THEN
    [ score |-> Num(10), reason |-> <<"Unusually high win rate: " \o rate \o "%">> ]
  ELSE IF winRate < 15 /\ totalGames > 50 THEN
    [ score |-> Num(10), reason |-> <<"Suspiciously low win rate: " \o rate \o "%">> ]
  ELSE
    [ score |-> Num(0), reason |-> <<>> ]

calculateWinRateScore(profile, th) ==
  LET winRate           == profile.gameStats.winRate
      totalGames        == profile.gameStats.total
      suspiciousWinRate == th.suspiciousWinRate
      rate              == ToString(winRate)
  IN
  IF winRate > 85 /\ totalGames > 20 THEN
    [ score  |-> Num(20),
      reason |-> <<rate \o "% win rate over " \o ToString(totalGames) \o " games">> ]
  ELSE IF winRate > 80 /\ totalGames > 50 THEN
    [ score |-> Num(15), reason |-> <<"Very high win rate: " \o rate \o "%">> ]
  ELSE IF winRate > suspiciousWinRate /\ totalGames > 100 THEN
    [ score |-> Num(10), reason |-> <<"Unusually high win rate: " \o rate \o "%">> ]
  ELSE IF winRate < 15 /\ totalGames > 50 THEN
    [ score |-> Num(10), reason |-> <<"Suspiciously low win rate: " \o rate \o "%">> ]
  ELSE
    [ score |-> Num(0), reason |-> <<>> ]

calculateRapidImprovementScore(profile) ==
  IF "recentActivity" \notin DOMAIN profile THEN
    [ score |-> Num(0), reason |-> <<>> ]
  ELSE
    LET ratingChange7Days  == OrZero(profile.recentActivity, "ratingChange7Days")
        ratingChange30Days == OrZero(profile.recentActivity, "ratingChange30Days")
    IN
    IF ratingChange7Days > 300 THEN
      [ score  |-> Num(15),
        reason |-> <<"+" \o ToString(ratingChange7Days) \o " rating in 7 days">> ]
    ELSE IF ratingChange7Days > 200 THEN
      [ score  |-> Num(10),
        reason |-> <<"Rapid improvement: +" \o ToString(ratingChange7Days)
                     \o " in a week">> ]
    ELSE IF ratingChange30Days > 500 THEN
      [ score  |-> Num(10),
        reason |-> <<"+" \o ToString(ratingChange30Days) \o " rating in 30 days">> ]
    ELSE
      [ score |-> Num(0), reason |-> <<>> ]

\* mutation of calculateAccountStatusScore: the verified test comes first
calculateAccountStatusScoreVerifiedFirst(profile) ==
  LET accountStatus == profile.accountStatus
  IN
  IF Truthy(accountStatus, "isVerified") THEN
    [ score |-> Num(-5), reason |-> <<>> ]
  ELSE IF Truthy(accountStatus, "isViolator") \/ Truthy(accountStatus, "isClosed") THEN
    [ score |-> Num(10), reason |-> <<"Account flagged by platform">> ]
  ELSE IF "isFairPlay" \in DOMAIN accountStatus /\ accountStatus.isFairPlay = FALSE THEN
    [ score |-> Num(8), reason |-> <<"Fair play violations detected">> ]
  ELSE
    [ score |-> Num(0), reason |-> <<>> ]

calculateAccountStatusScore(profile) ==
  LET accountStatus == profile.accountStatus
  IN
  IF Truthy(accountStatus, "isViolator") \/ Truthy(accountStatus, "isClosed") THEN
    [ score |-> Num(10), reason |-> <<"Account flagged by platform">> ]
  ELSE IF "isFairPlay" \in DOMAIN accountStatus /\ accountStatus.isFairPlay = FALSE THEN
    [ score |-> Num(8), reason |-> <<"Fair play violations detected">> ]
  ELSE IF Truthy(accountStatus, "isVerified") THEN
    [ score |-> Num(-5), reason |-> <<>> ]
  ELSE
    [ score |-> Num(0), reason |-> <<>> ]

\* mutation of weightedSum: the Math.min caps on the weighted sub-scores are missing
weightedSumUncapped(profile, th) ==
  LET ageScore         == calculateAccountAgeScore(profile, th)
      ratingScore      == calculateRatingVsGamesScore(profile, th)
      winRateScore     == calculateWinRateScore(profile, th)
      improvementScore == calculateRapidImprovementScore(profile)
      statusScore      == calculateAccountStatusScore(profile)
      s1 == RAdd(Num(0), RMul(ageScore.score, Rat(3, 2)))
      s2 == RAdd(s1, RMul(ratingScore.score, Rat(4, 5)))
      s3 == RAdd(s2, RMul(winRateScore.score, Rat(3, 4)))
      s4 == RAdd(s3, RMul(improvementScore.score, Rat(67, 100)))
      s5 == RAdd(s4, statusScore.score)
  IN  [ score   |-> s5,
        reasons |-> ageScore.reason \o ratingScore.reason \o winRateScore.reason
                    \o improvementScore.reason \o statusScore.reason ]

\* the running total and the reasons collected before the final clamp
weightedSum(profile, th) ==
  LET ageScore         == calculateAccountAgeScore(profile, th)
      ratingScore      == calculateRatingVsGamesScore(profile, th)
      winRateScore     == calculateWinRateScore(profile, th)
      improvementScore == calculateRapidImprovementScore(profile)
      statusScore      == calculateAccountStatusScore(profile)
      s1 == RAdd(Num(0), RMin(Num(45), RMul(ageScore.score, Rat(3, 2))))
      s2 == RAdd(s1, RMin(Num(20), RMul(ratingScore.score, Rat(4, 5))))
      s3 == RAdd(s2, RMin(Num(15), RMul(winRateScore.score, Rat(3, 4))))
      s4 == RAdd(s3, RMin(Num(10), RMul(improvementScore.score, Rat(67, 100))))
      s5 == RAdd(s4, statusScore.score)
  IN  [ score   |-> s5,
        reasons |-> ageScore.reason \o ratingScore.reason \o winRateScore.reason
                    \o improvementScore.reason \o statusScore.reason ]

\* mutation of calculateSuspicionScore: the lower clamp Math.max(0, ...) is missing
calculateSuspicionScoreNoFloor(profile, th) ==
  LET w == weightedSum(profile, th)
  IN  [ score |-> RMin(Num(100), w.score), reasons |-> w.reasons ]

\* returns the clamped score together with the reasons it stores in the profile
calculateSuspicionScore(profile, th) ==
  LET w == weightedSum(profile, th)
  IN  [ score |-> RMin(Num(100), RMax(Num(0), w.score)), reasons |-> w.reasons ]

\* mutation of getSuspicionLevel: the critical boundary is exclusive
getSuspicionLevelExclusive(score) ==
  IF RLt(Num(70), score) THEN "critical"
  ELSE IF RGe(score, Num(50)) THEN "high"
  ELSE IF RGe(score, Num(30)) THEN "medium"
  ELSE IF RGe(score, Num(15)) THEN "low"
  ELSE "none"

getSuspicionLevel(score) ==
  IF RGe(score, Num(70)) THEN "critical"
  ELSE IF RGe(score, Num(50)) THEN "high"
  ELSE IF RGe(score, Num(30)) THEN "medium"
  ELSE IF RGe(score, Num(15)) THEN "low"
  ELSE "none"


\* the value this.settings.thresholds holds after updateSettings(settings)
updateSettings(current, settings) ==
  IF "thresholds" \in DOMAIN settings
  THEN Spread(current, settings.thresholds)
  ELSE current

\* mutation of analyzeProfile: the settings argument is not applied
analyzeProfileIgnoringSettings(profile, settings, current) ==
  LET r == calculateSuspicionScore(profile, current)
  IN  [ profile    |-> [profile EXCEPT !.suspicionScore   = r.score,
                                       !.suspicionLevel   = getSuspicionLevel(r.score),
                                       !.suspicionReasons = r.reasons],
        thresholds |-> current ]

\* the analysed profile and the value of this.settings.thresholds after the call
analyzeProfile(profile, settings, current) ==
  LET th == IF settings.given THEN updateSettings(current, settings) ELSE current
      r  == calculateSuspicionScore(profile, th)
  IN  [ profile    |-> [profile EXCEPT !.suspicionScore   = r.score,
                                       !.suspicionLevel   = getSuspicionLevel(r.score),
                                       !.suspicionReasons = r.reasons],
        thresholds |-> th ]

(***************************************************************************)
(* Inputs                                                                  *)
(***************************************************************************)
EmptyObj == [k \in {} |-> 0]

NewProfile(age, ratings, gameStats, accountStatus) ==
  [ username         |-> "Bob",
    platform         |-> "lichess",
    accountAge       |-> age,
    ratings          |-> ratings,
    gameStats        |-> gameStats,
    accountStatus    |-> accountStatus,
    suspicionScore   |-> Num(0),
    suspicionLevel   |-> "none",
    suspicionReasons |-> <<>> ]

WithActivity(p, activity) == Spread(p, [recentActivity |-> activity])

Stats(total, wins, losses, draws, winRate) ==
  [total |-> total, wins |-> wins, losses |-> losses, draws |-> draws, winRate |-> winRate]

Ages == {0, 3, 13, 14, 29, 30, 200, 364, 365, 500}

RatingSets ==
  { EmptyObj, [bullet |-> 1200], [blitz |-> 1700], [rapid |-> 1850],
    [bullet |-> 2001, blitz |-> 1500], [blitz |-> 2300],
    [classical |-> 2500, puzzle |-> 2900] }

GameStatSets ==
  { Stats(0, 0, 0, 0, 0), Stats(15, 13, 2, 0, 87), Stats(20, 18, 2, 0, 90),
    Stats(20, 17, 3, 0, 87), Stats(21, 18, 3, 0, 85),
    Stats(21, 18, 3, 0, 86), Stats(30, 15, 15, 0, 50), Stats(51, 42, 9, 0, 82),
    Stats(51, 7, 44, 0, 14), Stats(101, 77, 24, 0, 76), Stats(600, 300, 200, 100, 50) }

Activities ==
  { [gamesLast7Days |-> 5, gamesLast30Days |-> 9, ratingChange7Days |-> 301],
    [gamesLast7Days |-> 5, gamesLast30Days |-> 9, ratingChange7Days |-> 201,
     ratingChange30Days |-> 600] }

Statuses ==
  { [isOnline |-> FALSE],
    [isOnline |-> FALSE, isViolator |-> TRUE],
    [isOnline |-> TRUE, isClosed |-> TRUE, isVerified |-> TRUE],
    [isOnline |-> FALSE, isFairPlay |-> FALSE],
    [isOnline |-> FALSE, isFairPlay |-> TRUE],
    [isOnline |-> FALSE, isFairPlay |-> FALSE, isVerified |-> TRUE],
    [isOnline |-> FALSE, isVerified |-> TRUE] }

PlainProfiles ==
  { NewProfile(a, r, g, s) : a \in Ages, r \in RatingSets, g \in GameStatSets, s \in Statuses }

Profiles ==
  PlainProfiles \cup { WithActivity(p, act) : p \in PlainProfiles, act \in Activities }

\* the profiles fetched in the multi-call specification
FetchedProfiles ==
  { NewProfile(500, EmptyObj, Stats(0, 0, 0, 0, 0), [isOnline |-> FALSE]),
    NewProfile(3, [blitz |-> 2300], Stats(15, 13, 2, 0, 87), [isOnline |-> FALSE]),
    NewProfile(13, [rapid |-> 1850], Stats(30, 15, 15, 0, 50), [isOnline |-> TRUE]),
    WithActivity(NewProfile(200, [bullet |-> 2001, blitz |-> 1500],
                            Stats(101, 77, 24, 0, 76),
                            [isOnline |-> FALSE, isVerified |-> TRUE]),
                 [gamesLast7Days |-> 5, gamesLast30Days |-> 9, ratingChange7Days |-> 301]) }

StrictThresholds ==
  [ criticalAccountDays      |-> 7,
    highSuspicionAccountDays |-> 14,
    suspiciousAccountDays    |-> 201,
    highRatingThreshold      |-> 1800,
    rapidRatingGainDays      |-> 14,
    rapidRatingGainAmount    |-> 200,
    minGamesRequired         |-> 20,
    suspiciousWinRate        |-> 60,
    suspicionAlertLevel      |-> "medium" ]

\* a configuration whose age tiers are not strictly increasing
UnorderedThresholds ==
  [ criticalAccountDays      |-> 30,
    highSuspicionAccountDays |-> 30,
    suspiciousAccountDays    |-> 15,
    highRatingThreshold      |-> 2400,
    rapidRatingGainDays      |-> 30,
    rapidRatingGainAmount    |-> 300,
    minGamesRequired         |-> 0,
    suspiciousWinRate        |-> 100,
    suspicionAlertLevel      |-> "high" ]

ThresholdKeys == DOMAIN DEFAULT_THRESHOLDS

CompleteConfigs == {DEFAULT_THRESHOLDS, StrictThresholds}

PartialConfigs ==
  { [criticalAccountDays |-> 7], [highRatingThreshold |-> 1800, minGamesRequired |-> 20] }

NoSettings == [given |-> FALSE]
SettingsWithout == [given |-> TRUE]
SettingsWith(cfg) == [given |-> TRUE, thresholds |-> cfg]

SettingsArgs ==
  {NoSettings, SettingsWithout} \cup { SettingsWith(c) : c \in CompleteConfigs \cup PartialConfigs }

ScoreArgs ==
  { NoSettings, SettingsWith(StrictThresholds), SettingsWith(UnorderedThresholds),
    SettingsWith([criticalAccountDays |-> 7]) }

\* the thresholds a settings argument supplies
Supplied(settings) == IF "thresholds" \in DOMAIN settings THEN settings.thresholds ELSE EmptyObj

IsComplete(settings) == DOMAIN Supplied(settings) = ThresholdKeys

\* the profile's data, without the three fields the analysis writes
SuspicionFields == {"suspicionScore", "suspicionLevel", "suspicionReasons"}
Data(p) == [k \in (DOMAIN p) \ SuspicionFields |-> p[k]]
Outcome(p) == [k \in SuspicionFields |-> p[k]]

(***************************************************************************)
(* State                                                                   *)
(***************************************************************************)
VARIABLES
  DEFAULT_SETTINGS,  \* the exported object; ProfileAnalyzer.settings is a reference to it
  profile,           \* the profile object last fetched / analysed (analysed in place)
  call,              \* the settings argument of the last analyzeProfile call
  ref,               \* an earlier analyzeProfile call, remembered for comparison
  lastOp,            \* the operation that made the last step
  now,               \* the wall clock, in milliseconds
  storage,           \* browser.storage.local['profileCache']: the entries in property order
  op,                \* the arguments of the last CacheManager operation
  result,            \* what the last CacheManager operation returned and logged
  storedSettings,    \* browser.storage.local['settings']: the stored settings object
  sweeps,            \* the clearExpiredProfiles runs in flight, each with its locals
  inFlight           \* the message handlers inside a CacheManager call, with its locals

analyzerVars == <<DEFAULT_SETTINGS, profile, call, ref>>
cacheVars == <<now, storage, op, result>>
backgroundVars == <<storedSettings, sweeps, inFlight>>
vars == <<DEFAULT_SETTINGS, profile, call, ref, lastOp, now, storage, op, result,
          storedSettings, sweeps, inFlight>>

\* browser.storage.local.get('settings') before anything was stored
NothingStored == [stored |-> FALSE]

\* the two registered 'cache-cleanup' listeners, neither running a sweep
Sweepers == {1, 2}
NoSweeps == [i \in Sweepers |-> [pc |-> "idle"]]

\* two invocations of the onMessage listener, neither inside a CacheManager call
Handlers == {1, 2}
NoneInFlight == [i \in Handlers |-> [pc |-> "idle"]]

\* private static settings = DEFAULT_SETTINGS
ProfileAnalyzer_settings == DEFAULT_SETTINGS

NoRef == [set |-> FALSE]
RefOf(p, settings) ==
  [set |-> TRUE, data |-> Data(p), cfg |-> Supplied(settings), out |-> Outcome(p),
   calls |-> 0]

\* one more analyzer call has been made since the remembered one (counted up to 2)
Later(r) == IF r.set THEN [r EXCEPT !.calls = IF @ < 2 THEN @ + 1 ELSE @] ELSE r

InitAnalyzer ==
  /\ DEFAULT_SETTINGS = [thresholds |-> DEFAULT_THRESHOLDS]
  /\ call = NoSettings
  /\ ref = NoRef
  /\ lastOp = "fetchProfile"
  /\ now = 0
  /\ storage = <<>>
  /\ op = [name |-> "none"]
  /\ result = [name |-> "none"]
  /\ storedSettings = NothingStored
  /\ sweeps = NoSweeps
  /\ inFlight = NoneInFlight

\* ChessAPIClient.fetchProfile hands a fresh, unscored profile object to the caller
FetchProfile(p) ==
  /\ profile' = p
  /\ lastOp' = "fetchProfile"
  /\ UNCHANGED <<DEFAULT_SETTINGS, call, ref>>
  /\ UNCHANGED cacheVars
  /\ UNCHANGED backgroundVars

\* ProfileAnalyzer.analyzeProfile(profile, settings) on the current profile object
AnalyzeProfile(settings) ==
  LET r == analyzeProfile(profile, settings, ProfileAnalyzer_settings.thresholds)
  IN  /\ profile' = r.profile
      /\ DEFAULT_SETTINGS' = [DEFAULT_SETTINGS EXCEPT !.thresholds = r.thresholds]
      /\ call' = settings
      /\ lastOp' = "analyzeProfile"
      /\ \/ ref' = Later(ref)
         \/ IsComplete(settings) /\ ref' = RefOf(r.profile, settings)
      /\ UNCHANGED cacheVars
      /\ UNCHANGED backgroundVars

\* ProfileAnalyzer.updateSettings(settings) called on its own
UpdateSettings(settings) ==
  /\ DEFAULT_SETTINGS' =
       [DEFAULT_SETTINGS EXCEPT
          !.thresholds = updateSettings(ProfileAnalyzer_settings.thresholds, settings)]
  /\ lastOp' = "updateSettings"
  /\ ref' = Later(ref)
  /\ UNCHANGED <<profile, call>>
  /\ UNCHANGED cacheVars
  /\ UNCHANGED backgroundVars

\* ProfileAnalyzer.getSuspicionLevel applied to a score
GetSuspicionLevel(score) ==
  /\ profile' = [profile EXCEPT !.suspicionScore = score,
                                !.suspicionLevel = getSuspicionLevel(score)]
  /\ lastOp' = "getSuspicionLevel"
  /\ UNCHANGED <<DEFAULT_SETTINGS, call, ref>>
  /\ UNCHANGED cacheVars
  /\ UNCHANGED backgroundVars

(***************************************************************************)
(* Spec: one analyzeProfile call for every profile and settings argument   *)
(***************************************************************************)
Init ==
  /\ InitAnalyzer
  /\ profile \in Profiles

Next ==
  /\ lastOp = "fetchProfile"
  /\ \E settings \in ScoreArgs : AnalyzeProfile(settings)

Spec == Init /\ [][Next]_vars

(***************************************************************************)
(* SpecAnalyzer: any sequence of fetches, analyses and settings updates    *)
(***************************************************************************)
InitCalls ==
  /\ InitAnalyzer
  /\ profile \in FetchedProfiles

NextCalls ==
  \/ \E p \in FetchedProfiles : FetchProfile(p)
  \/ \E settings \in SettingsArgs : AnalyzeProfile(settings)
  \/ \E settings \in SettingsArgs \ {NoSettings} : UpdateSettings(settings)

SpecAnalyzer == InitCalls /\ [][NextCalls]_vars

(***************************************************************************)
(* SpecLevel: getSuspicionLevel applied to scores in and around [0, 100]   *)
(***************************************************************************)
ScoreInputs == { Rat(k, 2) : k \in -10 .. 210 }

InitLevel ==
  /\ InitAnalyzer
  /\ \E s \in ScoreInputs :
       profile = [NewProfile(500, EmptyObj, Stats(0, 0, 0, 0, 0), [isOnline |-> FALSE])
                    EXCEPT !.suspicionScore = s]

NextLevel == \E s \in ScoreInputs : GetSuspicionLevel(s)

SpecLevel == InitLevel /\ [][NextLevel]_vars

(***************************************************************************)
(* SpecAlert: shouldAlert applied to profiles of every level               *)
(***************************************************************************)
\* the array of levels shouldAlert searches
levels == <<"none", "low", "medium", "high", "critical">>

\* Array.prototype.indexOf: the zero-based position of the first match, or -1
indexOf(array, x) ==
  IF \E i \in 1 .. Len(array) : array[i] = x
  THEN (CHOOSE i \in 1 .. Len(array) :
          array[i] = x /\ \A j \in 1 .. (i - 1) : array[j] # x) - 1
  ELSE -1

\* mutation of shouldAlert: the profile's level must be above the alert level
shouldAlertAbove(p, alertLevel) ==
  indexOf(levels, p.suspicionLevel) > indexOf(levels, alertLevel)

shouldAlert(p, alertLevel) ==
  LET profileLevelIndex == indexOf(levels, p.suspicionLevel)
      alertLevelIndex   == indexOf(levels, alertLevel)
  IN  profileLevelIndex >= alertLevelIndex

\* ProfileAnalyzer.shouldAlert(profile, alertLevel) on the current profile
ShouldAlert(alertLevel) ==
  /\ op' = [name |-> "shouldAlert", alertLevel |-> alertLevel]
  /\ result' = [name |-> "shouldAlert", alert |-> shouldAlert(profile, alertLevel)]
  /\ lastOp' = "shouldAlert"
  /\ UNCHANGED <<now, storage, analyzerVars, backgroundVars>>

NextAlert ==
  \/ \E s \in ScoreInputs : GetSuspicionLevel(s)
  \/ \E alertLevel \in SuspicionLevel : ShouldAlert(alertLevel)

SpecAlert == InitLevel /\ [][NextAlert]_vars

(***************************************************************************)
(* CacheManager (src/utils/cache-manager.ts)                               *)
(***************************************************************************)
MsPerSecond == 1000
MsPerMinute == 60 * MsPerSecond
MsPerHour   == 60 * 60 * 1000
MsPerDay    == 24 * MsPerHour

\* Date.prototype.toISOString: the instant broken down to day, hour, minute,
\* second and millisecond (days counted from the model's time 0)
toISOString(ms) ==
  [ day    |-> ms \div MsPerDay,
    hour   |-> (ms % MsPerDay) \div MsPerHour,
    minute |-> (ms % MsPerHour) \div MsPerMinute,
    second |-> (ms % MsPerMinute) \div MsPerSecond,
    milli  |-> ms % MsPerSecond ]

\* new Date(isoString).getTime()
parseDate(iso) ==
  iso.day * MsPerDay + iso.hour * MsPerHour + iso.minute * MsPerMinute
    + iso.second * MsPerSecond + iso.milli

\* the capacity enforceCacheLimit applies (its default parameter, 100 in the
\* source), scaled down
MaxProfiles == 2

\* the default of cacheProfile's expiryHours parameter
DefaultExpiryHours == 24

\* String.prototype.toLowerCase on the usernames of the model
toLowerCase(username) ==
  CASE username = "Bob" -> "bob"
    [] username = "BOB" -> "bob"
    [] OTHER -> username

\* mutation of getCacheKey: the username is used as written
getCacheKeyCaseSensitive(username, platform) == platform \o ":" \o username

getCacheKey(username, platform) == platform \o ":" \o toLowerCase(username)

\* the cache object: a sequence of [key, value] properties in insertion order
HasKey(cache, key) == \E i \in 1 .. Len(cache) : cache[i].key = key
ValueOf(cache, key) ==
  cache[CHOOSE i \in 1 .. Len(cache) : cache[i].key = key].value
KeysOf(cache) == { cache[i].key : i \in 1 .. Len(cache) }

\* cache[key] = value : an existing property keeps its place, a new one goes last
SetProperty(cache, key, value) ==
  IF HasKey(cache, key)
  THEN [i \in 1 .. Len(cache) |->
          IF cache[i].key = key THEN [key |-> key, value |-> value] ELSE cache[i]]
  ELSE Append(cache, [key |-> key, value |-> value])

\* delete cache[key] for every key of the set
DeleteProperties(cache, keys) ==
  LET Kept(e) == e.key \notin keys
  IN  SelectSeq(cache, Kept)

\* Array.prototype.sort with (a, b) => timeA - timeB : a stable sort by cachedAt
RECURSIVE InsertSorted(_, _)
InsertSorted(sorted, e) ==
  IF sorted = <<>> THEN <<e>>
  ELSE IF parseDate(sorted[Len(sorted)].value.cachedAt) <= parseDate(e.value.cachedAt)
       THEN Append(sorted, e)
       ELSE Append(InsertSorted(SubSeq(sorted, 1, Len(sorted) - 1), e),
                   sorted[Len(sorted)])

RECURSIVE SortByCachedAt(_)
SortByCachedAt(entries) ==
  IF entries = <<>> THEN <<>>
  ELSE InsertSorted(SortByCachedAt(SubSeq(entries, 1, Len(entries) - 1)),
                    entries[Len(entries)])

\* mutation of enforceCacheLimit: the entries are sorted newest first
enforceCacheLimitNewestFirst(cache, maxProfiles) ==
  IF Len(cache) <= maxProfiles THEN [cache |-> cache, removed |-> 0]
  ELSE
    LET sorted   == SortByCachedAt(cache)
        toRemove == Len(cache) - maxProfiles
        n        == Len(sorted)
    IN  [ cache   |-> DeleteProperties(cache, { sorted[n + 1 - i].key : i \in 1 .. toRemove }),
          removed |-> toRemove ]

\* the cache after enforceCacheLimit(cache, maxProfiles), and the number it logs
enforceCacheLimit(cache, maxProfiles) ==
  IF Len(cache) <= maxProfiles THEN [cache |-> cache, removed |-> 0]
  ELSE
    LET sorted   == SortByCachedAt(cache)
        toRemove == Len(cache) - maxProfiles
    IN  [ cache   |-> DeleteProperties(cache, { sorted[i].key : i \in 1 .. toRemove }),
          removed |-> toRemove ]

\* mutation of cachedProfileEntry: the expiry is computed in minutes
cachedProfileEntryMinutes(p, expiryHours, time) ==
  [ profile   |-> p,
    cachedAt  |-> toISOString(time),
    expiresAt |-> toISOString(time + expiryHours * 60 * 1000) ]

\* the CachedProfile object cacheProfile builds at time `time`
cachedProfileEntry(p, expiryHours, time) ==
  [ profile   |-> p,
    cachedAt  |-> toISOString(time),
    expiresAt |-> toISOString(time + expiryHours * 60 * 60 * 1000) ]

\* expiresAt < new Date()
isExpired(cached, time) == parseDate(cached.expiresAt) < time

\* the cache object removeCachedProfile writes back
removeCachedProfile(cache, username, platform) ==
  DeleteProperties(cache, {getCacheKey(username, platform)})

\* mutation of getCachedProfile: an expired entry is reported but not removed
getCachedProfileKeepingExpired(cache, username, platform, time) ==
  LET cacheKey == getCacheKey(username, platform)
  IN  IF ~HasKey(cache, cacheKey)
      THEN [found |-> FALSE, log |-> "No cached profile", cache |-> cache]
      ELSE IF isExpired(ValueOf(cache, cacheKey), time)
      THEN [found |-> FALSE, log |-> "Cached profile expired", cache |-> cache]
      ELSE [found |-> TRUE, log |-> "Found valid cached profile", cache |-> cache,
            profile |-> ValueOf(cache, cacheKey).profile]

\* what getCachedProfile returns and logs at time `time`, and the stored cache
\* it leaves behind
getCachedProfile(cache, username, platform, time) ==
  LET cacheKey == getCacheKey(username, platform)
  IN  IF ~HasKey(cache, cacheKey)
      THEN [found |-> FALSE, log |-> "No cached profile", cache |-> cache]
      ELSE IF isExpired(ValueOf(cache, cacheKey), time)
      THEN [found |-> FALSE, log |-> "Cached profile expired",
            cache |-> removeCachedProfile(cache, username, platform)]
      ELSE [found |-> TRUE, log |-> "Found valid cached profile", cache |-> cache,
            profile |-> ValueOf(cache, cacheKey).profile]

\* the cache object cacheProfile writes back, and the number of evictions logged
cacheProfile(cache, p, expiryHours, time) ==
  LET cacheKey == getCacheKey(p.username, p.platform)
      added    == SetProperty(cache, cacheKey, cachedProfileEntry(p, expiryHours, time))
  IN  enforceCacheLimit(added, MaxProfiles)

\* mutation of clearExpiredProfiles: an entry expiring at this instant is swept too
clearExpiredProfilesInclusive(cache, time) ==
  LET expired == { k \in KeysOf(cache) : parseDate(ValueOf(cache, k).expiresAt) <= time }
  IN  [ cache        |-> IF Cardinality(expired) > 0
                         THEN DeleteProperties(cache, expired) ELSE cache,
        removedCount |-> Cardinality(expired) ]

\* the cache object clearExpiredProfiles leaves, and the count it returns
clearExpiredProfiles(cache, time) ==
  LET expired == { k \in KeysOf(cache) : isExpired(ValueOf(cache, k), time) }
  IN  [ cache        |-> IF Cardinality(expired) > 0
                         THEN DeleteProperties(cache, expired) ELSE cache,
        removedCount |-> Cardinality(expired) ]

(***************************************************************************)
(* Cache inputs and operations                                             *)
(***************************************************************************)
Platforms == {"lichess"}

\* two spellings of one account, and two further accounts
Usernames == {"Bob", "bob", "amy", "zed"}

\* one more account than the cache holds
CapacityUsernames == {"Bob"} \cup { "user" \o ToString(i) : i \in 1 .. MaxProfiles }

\* the analysed profile the background caches for a detected username
ScoredProfile(username, platform) ==
  analyzeProfile([NewProfile(3, [blitz |-> 2300], Stats(15, 13, 2, 0, 87),
                             [isOnline |-> FALSE])
                    EXCEPT !.username = username, !.platform = platform],
                 NoSettings, DEFAULT_THRESHOLDS).profile

CachedProfiles == { ScoredProfile(u, pf) : u \in Usernames, pf \in Platforms }

CapacityProfiles == { ScoredProfile(u, pf) : u \in CapacityUsernames, pf \in Platforms }

\* the expiryHours a caller passes explicitly
ExpiryHours == {1}

\* the instants at which the clock is read
Times == { 0, MsPerHour, MsPerHour + 1,
           DefaultExpiryHours * MsPerHour, DefaultExpiryHours * MsPerHour + 1 }

\* the instants at which the clock is read in the smaller specifications
BackgroundTimes == {0, MsPerHour, MsPerHour + 1}

Advance(t) ==
  /\ t > now
  /\ now' = t
  /\ lastOp' = "advance"
  /\ op' = [name |-> "none"]
  /\ result' = [name |-> "none"]
  /\ UNCHANGED storage
  /\ UNCHANGED analyzerVars
  /\ UNCHANGED backgroundVars

\* CacheManager.cacheProfile(p, expiryHours), or cacheProfile(p) when ~given
CacheProfile(p, given, expiryHours) ==
  LET hours == IF given THEN expiryHours ELSE DefaultExpiryHours
      r     == cacheProfile(storage, p, hours, now)
  IN  /\ storage' = r.cache
      /\ op' = [name |-> "cacheProfile", profile |-> p, given |-> given, hours |-> hours]
      /\ result' = [name |-> "cacheProfile", removed |-> r.removed]
      /\ lastOp' = "cacheProfile"
      /\ UNCHANGED now
      /\ UNCHANGED analyzerVars
      /\ UNCHANGED backgroundVars

\* CacheManager.getCachedProfile(username, platform)
GetCachedProfile(username, platform) ==
  LET r == getCachedProfile(storage, username, platform, now)
  IN  /\ storage' = r.cache
      /\ op' = [name |-> "getCachedProfile", username |-> username, platform |-> platform]
      /\ result' = [k \in (DOMAIN r) \ {"cache"} |-> r[k]]
      /\ lastOp' = "getCachedProfile"
      /\ UNCHANGED now
      /\ UNCHANGED analyzerVars
      /\ UNCHANGED backgroundVars

\* CacheManager.removeCachedProfile(username, platform)
RemoveCachedProfile(username, platform) ==
  /\ storage' = removeCachedProfile(storage, username, platform)
  /\ op' = [name |-> "removeCachedProfile", username |-> username, platform |-> platform]
  /\ result' = [name |-> "removeCachedProfile"]
  /\ lastOp' = "removeCachedProfile"
  /\ UNCHANGED now
  /\ UNCHANGED analyzerVars
  /\ UNCHANGED backgroundVars

\* CacheManager.clearCache()
ClearCache ==
  /\ storage' = <<>>
  /\ op' = [name |-> "clearCache"]
  /\ result' = [name |-> "clearCache"]
  /\ lastOp' = "clearCache"
  /\ UNCHANGED now
  /\ UNCHANGED analyzerVars
  /\ UNCHANGED backgroundVars

\* CacheManager.clearExpiredProfiles()
ClearExpiredProfiles ==
  LET r == clearExpiredProfiles(storage, now)
  IN  /\ storage' = r.cache
      /\ op' = [name |-> "clearExpiredProfiles"]
      /\ result' = [name |-> "clearExpiredProfiles", removedCount |-> r.removedCount]
      /\ lastOp' = "clearExpiredProfiles"
      /\ UNCHANGED now
      /\ UNCHANGED analyzerVars
      /\ UNCHANGED backgroundVars

(***************************************************************************)
(* SpecCache: cache operations run one after another on a fresh store      *)
(***************************************************************************)
InitCache ==
  /\ InitAnalyzer
  /\ profile = EmptyObj

NextCache ==
  \/ \E t \in Times : Advance(t)
  \/ \E p \in CachedProfiles : \E h \in ExpiryHours : CacheProfile(p, TRUE, h)
  \/ \E p \in CachedProfiles : CacheProfile(p, FALSE, 0)
  \/ \E u \in Usernames : \E pf \in Platforms : GetCachedProfile(u, pf)
  \/ \E u \in Usernames : \E pf \in Platforms : RemoveCachedProfile(u, pf)
  \/ ClearCache
  \/ ClearExpiredProfiles

SpecCache == InitCache /\ [][NextCache]_vars

(***************************************************************************)
(* SpecCapacity: more accounts are cached than the cache holds             *)
(***************************************************************************)
NextCapacity ==
  \/ \E t \in Times : Advance(t)
  \/ \E p \in CapacityProfiles : \E h \in ExpiryHours : CacheProfile(p, TRUE, h)
  \/ \E p \in CapacityProfiles : CacheProfile(p, FALSE, 0)
  \/ \E u \in CapacityUsernames : \E pf \in Platforms : RemoveCachedProfile(u, pf)

SpecCapacity == InitCache /\ [][NextCapacity]_vars

(***************************************************************************)
(* SpecKeys: one account, spelled three ways, on both platforms            *)
(***************************************************************************)
ChessPlatform == {"lichess", "chess.com"}

KeyUsernames == {"Bob", "bob", "BOB"}

KeyProfiles == { ScoredProfile(u, pf) : u \in KeyUsernames, pf \in ChessPlatform }

NextKeys ==
  \/ \E t \in BackgroundTimes : Advance(t)
  \/ \E p \in KeyProfiles : \E h \in ExpiryHours : CacheProfile(p, TRUE, h)
  \/ \E p \in KeyProfiles : CacheProfile(p, FALSE, 0)
  \/ \E u \in KeyUsernames : \E pf \in ChessPlatform : GetCachedProfile(u, pf)
  \/ \E u \in KeyUsernames : \E pf \in ChessPlatform : RemoveCachedProfile(u, pf)

SpecKeys == InitCache /\ [][NextKeys]_vars

(***************************************************************************)
(* CacheManager on a backing store whose reads and writes can fail         *)
(***************************************************************************)
\* getAllCachedProfiles(): the stored cache, or {} when the read is rejected
getAllCachedProfiles(store, readFails) == IF readFails THEN <<>> ELSE store

\* browser.storage.local.set({ profileCache: value }): the store afterwards; a
\* rejected write is caught by the caller and leaves the store as it was
storageSet(store, value, writeFails) == IF writeFails THEN store ELSE value

\* the store after cacheProfile(p, expiryHours)
cacheProfileOnStore(store, p, expiryHours, time, readFails, writeFails) ==
  storageSet(store,
             cacheProfile(getAllCachedProfiles(store, readFails), p, expiryHours, time).cache,
             writeFails)

\* the store after removeCachedProfile(username, platform)
removeCachedProfileOnStore(store, username, platform, readFails, writeFails) ==
  storageSet(store,
             removeCachedProfile(getAllCachedProfiles(store, readFails), username, platform),
             writeFails)

\* what getCachedProfile(username, platform) returns and the store it leaves; an
\* expired entry is removed by a removeCachedProfile call that reads the store again
getCachedProfileOnStore(store, username, platform, time, readFails, rereadFails, writeFails) ==
  LET r == getCachedProfile(getAllCachedProfiles(store, readFails), username, platform, time)
  IN  [ r EXCEPT !.cache =
          IF r.log = "Cached profile expired"
          THEN removeCachedProfileOnStore(store, username, platform, rereadFails, writeFails)
          ELSE store ]

FaultUsernames == {"Bob", "amy"}

FaultProfiles == { ScoredProfile(u, pf) : u \in FaultUsernames, pf \in Platforms }

\* cacheProfile(p, expiryHours) while the store misbehaves
CacheProfileOnStore(p, expiryHours, readFails, writeFails) ==
  /\ storage' = cacheProfileOnStore(storage, p, expiryHours, now, readFails, writeFails)
  /\ op' = [name |-> "cacheProfile", profile |-> p, hours |-> expiryHours,
            readFails |-> readFails, writeFails |-> writeFails]
  /\ result' = [name |-> "cacheProfile"]
  /\ lastOp' = "cacheProfileOnStore"
  /\ UNCHANGED <<now, analyzerVars, backgroundVars>>

\* getCachedProfile(username, platform) while the store misbehaves
GetCachedProfileOnStore(username, platform, readFails, rereadFails, writeFails) ==
  LET r == getCachedProfileOnStore(storage, username, platform, now,
                                   readFails, rereadFails, writeFails)
  IN  /\ storage' = r.cache
      /\ op' = [name |-> "getCachedProfile", username |-> username, platform |-> platform,
                readFails |-> readFails, rereadFails |-> rereadFails,
                writeFails |-> writeFails]
      /\ result' = [k \in (DOMAIN r) \ {"cache"} |-> r[k]]
      /\ lastOp' = "getCachedProfileOnStore"
      /\ UNCHANGED <<now, analyzerVars, backgroundVars>>

(***************************************************************************)
(* SpecFaults: cache reads and writes, any of whose storage steps can fail *)
(***************************************************************************)
NextFaults ==
  \/ \E t \in Times : Advance(t)
  \/ \E p \in FaultProfiles : \E h \in ExpiryHours : \E rf, wf \in BOOLEAN :
       CacheProfileOnStore(p, h, rf, wf)
  \/ \E u \in FaultUsernames : \E pf \in Platforms : \E rf, rrf, wf \in BOOLEAN :
       GetCachedProfileOnStore(u, pf, rf, rrf, wf)

SpecFaults == InitCache /\ [][NextFaults]_vars

(***************************************************************************)
(* clearExpiredProfiles step by step: both registered 'cache-cleanup'      *)
(* listeners run it, and the runs interleave at their awaits               *)
(***************************************************************************)
Other(i) == CHOOSE j \in Sweepers : j # i

\* const cache = await this.getAllCachedProfiles(): sweep i gets its own copy of
\* the stored cache; `first` and `after` note how the run lies relative to the other
SweepRead(i) ==
  /\ sweeps[i].pc = "idle"
  /\ sweeps' = [sweeps EXCEPT ![i] =
                  [ pc     |-> "read",
                    base   |-> storage,
                    first  |-> sweeps[Other(i)].pc = "idle",
                    after  |-> sweeps[Other(i)].pc = "done" ]]
  /\ lastOp' = "sweepRead"
  /\ UNCHANGED <<storedSettings, inFlight, analyzerVars, cacheVars>>

\* const now = new Date() and the forEach that deletes from the copy and counts
SweepFilter(i) ==
  /\ sweeps[i].pc = "read"
  /\ LET r == clearExpiredProfiles(sweeps[i].base, now)
     IN  sweeps' = [sweeps EXCEPT ![i] =
                      [ pc |-> "filtered", base |-> sweeps[i].base,
                        first |-> sweeps[i].first, after |-> sweeps[i].after,
                        now |-> now, cache |-> r.cache, removedCount |-> r.removedCount ]]
  /\ lastOp' = "sweepFilter"
  /\ UNCHANGED <<storedSettings, inFlight, analyzerVars, cacheVars>>

\* if (removedCount > 0) await browser.storage.local.set(...); return removedCount
SweepWrite(i) ==
  /\ sweeps[i].pc = "filtered"
  /\ storage' = IF sweeps[i].removedCount > 0 THEN sweeps[i].cache ELSE storage
  /\ sweeps' = [sweeps EXCEPT ![i].pc = "done"]
  /\ op' = [name |-> "clearExpiredProfiles"]
  /\ result' = [name |-> "clearExpiredProfiles", removedCount |-> sweeps[i].removedCount]
  /\ lastOp' = "sweepWrite"
  /\ UNCHANGED <<now, storedSettings, inFlight, analyzerVars>>

\* both runs have returned; the listeners wait for the next alarm
SweepsReturn ==
  /\ \A i \in Sweepers : sweeps[i].pc = "done"
  /\ sweeps' = NoSweeps
  /\ lastOp' = "sweepsReturn"
  /\ UNCHANGED <<storedSettings, inFlight, analyzerVars, cacheVars>>

(***************************************************************************)
(* SpecSweep: profiles are cached, then the alarm starts both sweeps       *)
(***************************************************************************)
NextSweep ==
  \/ \E t \in Times : Advance(t)
  \/ /\ sweeps = NoSweeps
     /\ \E p \in FaultProfiles : \E h \in ExpiryHours : CacheProfile(p, TRUE, h)
  \/ /\ sweeps = NoSweeps
     /\ \E p \in FaultProfiles : CacheProfile(p, FALSE, 0)
  \/ \E i \in Sweepers : SweepRead(i)
  \/ \E i \in Sweepers : SweepFilter(i)
  \/ \E i \in Sweepers : SweepWrite(i)
  \/ SweepsReturn

SpecSweep == InitCache /\ [][NextSweep]_vars

(***************************************************************************)
(* Message handlers that overlap at their awaits                           *)
(*                                                                         *)
(* The onMessage listener starts handleMessage for every message and does  *)
(* not wait for the previous one, so the CacheManager calls of two         *)
(* handlers interleave at each await of a storage read or write.           *)
(***************************************************************************)
OtherHandler(i) == CHOOSE j \in Handlers : j # i

OverlapTimes == {0, MsPerHour + 1}

\* cacheProfile up to its storage write: the read of the whole cache, the new
\* entry stamped with new Date(), and enforceCacheLimit on the handler's copy
CacheProfileRead(i, p, expiryHours) ==
  /\ inFlight[i].pc = "idle"
  /\ \E key \in {getCacheKey(p.username, p.platform)} :
     \E base \in {getAllCachedProfiles(storage, FALSE)} :
     \E r \in {cacheProfile(base, p, expiryHours, now)} :
       inFlight' = [inFlight EXCEPT ![i] =
                      [ pc |-> "cacheRead", name |-> "cacheProfile", key |-> key,
                        cache |-> r.cache, entry |-> ValueOf(r.cache, key) ]]
  /\ lastOp' = "cacheProfileRead"
  /\ UNCHANGED <<storedSettings, sweeps, analyzerVars, cacheVars>>

\* await browser.storage.local.set({ profileCache: cache })
CacheProfileWrite(i) ==
  /\ inFlight[i].pc = "cacheRead"
  /\ storage' = inFlight[i].cache
  /\ inFlight' = [inFlight EXCEPT ![i] =
                    [ pc |-> "done", name |-> "cacheProfile", key |-> inFlight[i].key,
                      entry |-> inFlight[i].entry ]]
  /\ lastOp' = "cacheProfileWrite"
  /\ UNCHANGED <<now, op, result, storedSettings, sweeps, analyzerVars>>

\* getCachedProfile up to its return or to its call of removeCachedProfile
GetCachedProfileRead(i, username, platform) ==
  /\ inFlight[i].pc = "idle"
  /\ \E key \in {getCacheKey(username, platform)} :
     \E cache \in {getAllCachedProfiles(storage, FALSE)} :
       inFlight' = [inFlight EXCEPT ![i] =
         IF ~HasKey(cache, key) THEN
           [ pc |-> "done", name |-> "getCachedProfile", key |-> key, found |-> FALSE ]
         ELSE IF isExpired(ValueOf(cache, key), now) THEN
           [ pc |-> "expired", name |-> "getCachedProfile", key |-> key,
             username |-> username, platform |-> platform ]
         ELSE
           [ pc |-> "done", name |-> "getCachedProfile", key |-> key, found |-> TRUE ]]
  /\ lastOp' = "getCachedProfileRead"
  /\ UNCHANGED <<storedSettings, sweeps, analyzerVars, cacheVars>>

\* removeCachedProfile up to its storage write: a second read of the whole
\* cache and delete cache[key] on the handler's copy
RemoveRead(i) ==
  /\ inFlight[i].pc = "expired"
  /\ \E cache \in {getAllCachedProfiles(storage, FALSE)} :
       inFlight' = [inFlight EXCEPT ![i] =
                      [ pc |-> "removing", name |-> "getCachedProfile",
                        key |-> inFlight[i].key,
                        cache |-> removeCachedProfile(cache, inFlight[i].username,
                                                      inFlight[i].platform) ]]
  /\ lastOp' = "removeRead"
  /\ UNCHANGED <<storedSettings, sweeps, analyzerVars, cacheVars>>

\* await browser.storage.local.set({ profileCache: cache }); getCachedProfile
\* then returns null
RemoveWrite(i) ==
  /\ inFlight[i].pc = "removing"
  /\ storage' = inFlight[i].cache
  /\ inFlight' = [inFlight EXCEPT ![i] =
                    [ pc |-> "done", name |-> "getCachedProfile", key |-> inFlight[i].key,
                      found |-> FALSE ]]
  /\ lastOp' = "removeWrite"
  /\ UNCHANGED <<now, op, result, storedSettings, sweeps, analyzerVars>>

Settled(pc) == pc \in {"idle", "done"}

\* every call that was started has returned
AllSettled ==
  /\ \A i \in Handlers : Settled(inFlight[i].pc)
  /\ \A i \in Sweepers : Settled(sweeps[i].pc)

\* the handlers and the alarm listener have returned and wait for the next event
HandlersReturn ==
  /\ AllSettled
  /\ \/ inFlight # NoneInFlight
     \/ sweeps # NoSweeps
  /\ inFlight' = NoneInFlight
  /\ sweeps' = NoSweeps
  /\ lastOp' = "handlersReturn"
  /\ UNCHANGED <<storedSettings, analyzerVars, cacheVars>>

(***************************************************************************)
(* SpecOverlap: two message handlers and one sweep use the cache at once   *)
(***************************************************************************)
NextOverlap ==
  \/ \E t \in OverlapTimes : Advance(t)
  \/ \E i \in Handlers : \E p \in FaultProfiles : \E h \in ExpiryHours :
       CacheProfileRead(i, p, h)
  \/ \E i \in Handlers : CacheProfileWrite(i)
  \/ \E i \in Handlers : \E u \in FaultUsernames : \E pf \in Platforms :
       GetCachedProfileRead(i, u, pf)
  \/ \E i \in Handlers : RemoveRead(i)
  \/ \E i \in Handlers : RemoveWrite(i)
  \/ SweepRead(1)
  \/ SweepFilter(1)
  \/ SweepWrite(1)
  \/ HandlersReturn

SpecOverlap == InitCache /\ [][NextOverlap]_vars

(***************************************************************************)
(* Stored settings (storage utilities) and the background service worker   *)
(* (src/background/index.ts)                                               *)
(***************************************************************************)
\* DEFAULT_SETTINGS.cache, with maxProfiles scaled like enforceCacheLimit's default
DEFAULT_CACHE ==
  [enabled |-> TRUE, expiryHours |-> DefaultExpiryHours, maxProfiles |-> MaxProfiles]

\* an optional object-valued property, or {} when it is missing
OrEmpty(obj, field) == IF field \in DOMAIN obj THEN obj[field] ELSE EmptyObj

\* getSettings() when a settings object is stored: the stored sections merged
\* over the defaults of the calling context
getSettings(stored, defaults) ==
  [ stored     |-> TRUE,
    thresholds |-> Spread(defaults.thresholds, OrEmpty(stored, "thresholds")),
    cache      |-> Spread(DEFAULT_CACHE, OrEmpty(stored, "cache")) ]

\* the object saveSettings(partial) stores: { ...current, ...partial }
saveSettings(stored, defaults, partial) == Spread(getSettings(stored, defaults), partial)

\* the object the popup's saveSettings() stores: thresholds only, replacing
\* whatever was stored
popupSaveSettings(thresholds) == [stored |-> TRUE, thresholds |-> thresholds]

\* analyzeProfile(username, platform) of the background, given the profile the
\* API client fetched: ProfileAnalyzer.analyzeProfile(profile), without settings
backgroundAnalyzeProfile(fetched, stored, defaults) ==
  analyzeProfile(fetched, NoSettings, defaults.thresholds).profile

\* the profile the API client returns for a requested account
fetchProfile(data, username, platform) ==
  [data EXCEPT !.username = username, !.platform = platform]

\* the accounts content scripts report
DetectedUsernames == {"Bob", "amy"}

\* what the API returns for the detected accounts
FetchedData(username) ==
  IF toLowerCase(username) = "bob"
  THEN NewProfile(13, [rapid |-> 1850], Stats(30, 15, 15, 0, 50), [isOnline |-> TRUE])
  ELSE NewProfile(3, [blitz |-> 2300], Stats(15, 13, 2, 0, 87), [isOnline |-> FALSE])

\* the cache sections written to the stored settings
CacheConfigs ==
  { [enabled |-> TRUE, expiryHours |-> 1, maxProfiles |-> MaxProfiles - 1],
    [enabled |-> TRUE, expiryHours |-> 0, maxProfiles |-> MaxProfiles + 1],
    [enabled |-> FALSE, expiryHours |-> 1, maxProfiles |-> MaxProfiles + 1] }

\* the popup's saveSettings(): the thresholds of its form are stored and
\* SETTINGS_UPDATED is sent; the background only relays that message to the tabs
PopupSaveSettings(thresholds) ==
  /\ storedSettings' = popupSaveSettings(thresholds)
  /\ lastOp' = "popupSaveSettings"
  /\ UNCHANGED <<sweeps, inFlight, analyzerVars, cacheVars>>

\* saveSettings(partial) with a cache section; it returns only once getSettings
\* finds a stored object
SaveSettings(partial) ==
  /\ storedSettings.stored
  /\ storedSettings' = saveSettings(storedSettings, DEFAULT_SETTINGS, partial)
  /\ lastOp' = "saveSettings"
  /\ UNCHANGED <<sweeps, inFlight, analyzerVars, cacheVars>>

\* PROFILES_DETECTED with one detected username that is on neither list: one
\* round of the loop of handleProfilesDetected. getSettings returns only once a
\* settings object is stored. The profile put into the response is kept in
\* `profile`.
\* processProfiles in the content scripts: const profileData =
\* response.profiles[detection.username]; if (profileData) injectBadge(...)
injectedBadge(response, detectionUsername) ==
  IF detectionUsername \in DOMAIN response.profiles
  THEN [injected |-> TRUE, profileData |-> response.profiles[detectionUsername]]
  ELSE [injected |-> FALSE]

ProfilesDetected(detected, platform, data) ==
  /\ storedSettings.stored
  /\ \E merged \in {getSettings(storedSettings, DEFAULT_SETTINGS)} :
     \E username \in {toLowerCase(detected)} :
     \E cached \in {getCachedProfile(storage, username, platform, now)} :
       IF cached.found
       THEN /\ profile' = cached.profile
            /\ storage' = cached.cache
            /\ result' = [name |-> "profilesDetected", source |-> "cache",
                          profiles |-> [k \in {username} |-> cached.profile]]
       ELSE \E analyzed \in {backgroundAnalyzeProfile(fetchProfile(data, username, platform),
                                                      storedSettings, DEFAULT_SETTINGS)} :
              /\ profile' = analyzed
              /\ storage' = IF merged.cache.enabled
                            THEN cacheProfile(cached.cache, analyzed,
                                              merged.cache.expiryHours, now).cache
                            ELSE cached.cache
              /\ result' = [name |-> "profilesDetected", source |-> "analysis",
                            profiles |-> [k \in {username} |-> analyzed]]
  /\ op' = [name |-> "profilesDetected", username |-> detected, platform |-> platform]
  /\ lastOp' = "profilesDetected"
  /\ UNCHANGED <<DEFAULT_SETTINGS, call, ref, now, backgroundVars>>

\* ANALYZE_PROFILE: the profile is fetched and analysed, and not cached
AnalyzeProfileRequest(username, platform, data) ==
  /\ profile' = backgroundAnalyzeProfile(fetchProfile(data, username, platform),
                                         storedSettings, DEFAULT_SETTINGS)
  /\ op' = [name |-> "analyzeProfileRequest", username |-> username, platform |-> platform]
  /\ result' = [name |-> "analyzeProfileRequest", source |-> "analysis"]
  /\ lastOp' = "analyzeProfileRequest"
  /\ UNCHANGED <<DEFAULT_SETTINGS, call, ref, now, storage, backgroundVars>>

(***************************************************************************)
(* SpecBackground: settings are saved and the background serves requests   *)
(***************************************************************************)
NextBackground ==
  \/ \E t \in BackgroundTimes : Advance(t)
  \/ \E thresholds \in CompleteConfigs : PopupSaveSettings(thresholds)
  \/ \E c \in CacheConfigs : SaveSettings([cache |-> c])
  \/ \E u \in DetectedUsernames : \E pf \in Platforms :
       ProfilesDetected(u, pf, FetchedData(u))
  \/ \E u \in DetectedUsernames : \E pf \in Platforms :
       AnalyzeProfileRequest(u, pf, FetchedData(u))

SpecBackground == InitCache /\ [][NextBackground]_vars

(***************************************************************************)
(* Properties of the scoring engine                                        *)
(***************************************************************************)
Analysed == lastOp = "analyzeProfile"

\* the thresholds the analyzer holds, i.e. those the last analysis used
CurrentThresholds == ProfileAnalyzer_settings.thresholds

\* C1: whatever the profile and the threshold configuration, the score that
\* analyzeProfile stores in the profile lies between 0 and 100.
C1_ScoreWithinBounds ==
  Analysed => /\ RLe(Num(0), profile.suspicionScore)
              /\ RLe(profile.suspicionScore, Num(100))

\* a verified account whose only contribution is the negative status score
C1_Witness ==
  /\ Analysed
  /\ Truthy(profile.accountStatus, "isVerified")
  /\ RLt(weightedSum(profile, CurrentThresholds).score, Num(0))
  /\ profile.suspicionScore = Num(0)

Rank(level) ==
  CASE level = "none"     -> 0
    [] level = "low"      -> 1
    [] level = "medium"   -> 2
    [] level = "high"     -> 3
    [] level = "critical" -> 4

\* C2: getSuspicionLevel maps a score to the level whose lower-inclusive band
\* holds it (70 critical, 50 high, 30 medium, 15 low, else none), so that
\* 69 is high, 70 critical, 14 none and 15 low, and no higher score gets a
\* lower level.
C2_LevelMapping ==
  lastOp = "getSuspicionLevel" =>
    LET s == profile.suspicionScore
        l == profile.suspicionLevel
    IN  /\ l = "critical" <=> RGe(s, Num(70))
        /\ l = "high"     <=> RGe(s, Num(50)) /\ RLt(s, Num(70))
        /\ l = "medium"   <=> RGe(s, Num(30)) /\ RLt(s, Num(50))
        /\ l = "low"      <=> RGe(s, Num(15)) /\ RLt(s, Num(30))
        /\ l = "none"     <=> RLt(s, Num(15))
        /\ s = Num(69) => l = "high"
        /\ s = Num(70) => l = "critical"
        /\ s = Num(14) => l = "none"
        /\ s = Num(15) => l = "low"
        /\ \A t \in ScoreInputs :
             RLe(s, t) => Rank(l) <= Rank(getSuspicionLevel(t))

C2_Witness ==
  /\ lastOp = "getSuspicionLevel"
  /\ profile.suspicionScore = Num(70)
  /\ profile.suspicionLevel = "critical"

EstablishedEmptyProfile ==
  NewProfile(500, EmptyObj, Stats(0, 0, 0, 0, 0), [isOnline |-> FALSE])

\* C3: an account 500 days old with no ratings, no games, no recent activity
\* and no status flags, scored with the default thresholds, gets score 0,
\* level none and no reasons.
C3_EstablishedEmptyProfileScoresZero ==
  (Analysed /\ Data(profile) = Data(EstablishedEmptyProfile)
            /\ CurrentThresholds = DEFAULT_THRESHOLDS) =>
    /\ profile.suspicionScore = Num(0)
    /\ profile.suspicionLevel = "none"
    /\ profile.suspicionReasons = <<>>

OrderedTiers(th) ==
  /\ th.criticalAccountDays < th.highSuspicionAccountDays
  /\ th.highSuspicionAccountDays < th.suspiciousAccountDays

\* C4: with ratings and (ordered) thresholds fixed, an older account never
\* gets a higher account-age sub-score than a younger one.
C4_AgeScoreNonIncreasing ==
  (Analysed /\ OrderedTiers(CurrentThresholds)) =>
    \A b \in Ages :
      profile.accountAge < b =>
        RGe(calculateAccountAgeScore(profile, CurrentThresholds).score,
            calculateAccountAgeScore([profile EXCEPT !.accountAge = b],
                                     CurrentThresholds).score)

\* C5: in an analyzeProfile call every threshold that the call does not
\* supply has its documented default, whatever calls were made before.
C5_UnsuppliedThresholdsAreDefaults ==
  Analysed =>
    \A k \in ThresholdKeys \ DOMAIN Supplied(call) :
      CurrentThresholds[k] = DEFAULT_THRESHOLDS[k]

\* C6: an analyzeProfile call leaves the analyzer's thresholds and the
\* exported DEFAULT_SETTINGS.thresholds as they were before the call.
C6_AnalyzeLeavesSettingsUnchanged ==
  [][lastOp' = "analyzeProfile" =>
       /\ ProfileAnalyzer_settings' = ProfileAnalyzer_settings
       /\ DEFAULT_SETTINGS'.thresholds = DEFAULT_SETTINGS.thresholds]_vars

\* the last analyzeProfile call had the same profile data and the same
\* complete threshold configuration as the remembered earlier call
SameArguments ==
  /\ Analysed
  /\ ref.set
  /\ ref.calls >= 1
  /\ IsComplete(call)
  /\ ref.cfg = Supplied(call)
  /\ ref.data = Data(profile)

\* C7: two analyzeProfile calls with equal profile data and the same complete
\* threshold configuration give the same score, level and reasons, whatever
\* calls were made in between and whether or not the profile was scored before.
C7_SameArgumentsSameOutcome == SameArguments => Outcome(profile) = ref.out

\* the second call came after another analyzer call that followed the first
C7_Witness == SameArguments /\ ref.calls = 2 /\ Outcome(profile) = ref.out

(***************************************************************************)
(* Properties of the cache                                                 *)
(***************************************************************************)
\* the key the last cache operation addressed
KeyOfCall(o) ==
  IF o.name = "cacheProfile"
  THEN getCacheKey(o.profile.username, o.profile.platform)
  ELSE getCacheKey(o.username, o.platform)

ExpiresAtMs(cache, key) == parseDate(ValueOf(cache, key).expiresAt)
CachedAtMs(cache, key) == parseDate(ValueOf(cache, key).cachedAt)

\* C8: after cacheProfile(X, ttlHours) a getCachedProfile for X's username and
\* platform returns X at every time up to (time of the put) + ttlHours * 3600 s
\* and absent at every later time, as long as the entry is not removed; an
\* earlier entry for the key is overwritten; without a ttl the lifetime is 24 h.
C8_CacheRoundTrip ==
  [][ /\ lastOp' = "cacheProfile" =>
           LET X         == op'.profile
               ttlHours  == IF op'.given THEN op'.hours ELSE 24
               expiresAt == now' + ttlHours * 3600 * 1000
           IN  \A t \in Times :
                 t >= now' =>
                   LET r == getCachedProfile(storage', X.username, X.platform, t)
                   IN  IF t <= expiresAt THEN r.found /\ r.profile = X ELSE ~r.found
      /\ lastOp' = "getCachedProfile" =>
           LET k == KeyOfCall(op')
           IN  IF HasKey(storage, k) /\ now <= ExpiresAtMs(storage, k)
               THEN result'.found /\ result'.profile = ValueOf(storage, k).profile
               ELSE ~result'.found
      /\ \A k \in KeysOf(storage) \cap KeysOf(storage') :
           ~(lastOp' = "cacheProfile" /\ KeyOfCall(op') = k) =>
             ValueOf(storage', k) = ValueOf(storage, k)
    ]_vars

\* a read at exactly the entry's expiry instant, one hour or more after the put,
\* still returns the cached profile
C8_Witness ==
  /\ lastOp = "getCachedProfile"
  /\ result.found
  /\ HasKey(storage, KeyOfCall(op))
  /\ ExpiresAtMs(storage, KeyOfCall(op)) = now
  /\ CachedAtMs(storage, KeyOfCall(op)) < now
  /\ result.profile = ValueOf(storage, KeyOfCall(op)).profile

\* C9: a getCachedProfile on a key whose entry has expiresAt earlier than the
\* current time returns absent and leaves the store without that entry and
\* with every other entry unchanged.
C9_ExpiredReadEvicts ==
  [][ LET k == KeyOfCall(op')
      IN  (lastOp' = "getCachedProfile" /\ HasKey(storage, k)
             /\ ExpiresAtMs(storage, k) < now) =>
            /\ ~result'.found
            /\ ~HasKey(storage', k)
            /\ KeysOf(storage') = KeysOf(storage) \ {k}
            /\ \A other \in KeysOf(storage') :
                 ValueOf(storage', other) = ValueOf(storage, other)
    ]_vars

\* an expired entry was just evicted by a read while another entry stayed
C9_Witness ==
  /\ lastOp = "getCachedProfile"
  /\ result.log = "Cached profile expired"
  /\ ~HasKey(storage, KeyOfCall(op))
  /\ Len(storage) >= 1

\* C10: when a cacheProfile call makes the entry count exceed the capacity,
\* exactly the oldest entries by cachedAt are removed until the capacity is
\* met: the count is then the capacity, no removed entry is younger than a
\* retained one, the retained entries are unchanged and the entry just
\* written is among them.
C10_OldestEvictedFirst ==
  [][ lastOp' = "cacheProfile" =>
        LET k     == KeyOfCall(op')
            count == Len(storage) + (IF HasKey(storage, k) THEN 0 ELSE 1)
        IN  count > MaxProfiles =>
              /\ Len(storage') = MaxProfiles
              /\ result'.removed = count - MaxProfiles
              /\ HasKey(storage', k)
              /\ ValueOf(storage', k).profile = op'.profile
              /\ CachedAtMs(storage', k) = now'
              /\ KeysOf(storage') \subseteq KeysOf(storage) \cup {k}
              /\ \A gone \in KeysOf(storage) \ KeysOf(storage') :
                   \A kept \in KeysOf(storage') :
                     CachedAtMs(storage, gone) <= CachedAtMs(storage', kept)
              /\ \A kept \in KeysOf(storage') \ {k} :
                   ValueOf(storage', kept) = ValueOf(storage, kept)
    ]_vars

\* a write has just evicted an entry, and the retained entries differ in age
C10_Witness ==
  /\ lastOp = "cacheProfile"
  /\ result.removed > 0
  /\ Len(storage) = MaxProfiles
  /\ \E a, b \in KeysOf(storage) : CachedAtMs(storage, a) < CachedAtMs(storage, b)

(***************************************************************************)
(* Properties of the background and of the remaining cache operations      *)
(***************************************************************************)
\* C11: after every completed cache write the number of persisted entries is
\* at most the configured maximum, settings.cache.maxProfiles, whatever value
\* is configured.
C11_CountWithinConfiguredMaximum ==
  (lastOp = "profilesDetected" /\ result.source = "analysis") =>
    Len(storage) <= getSettings(storedSettings, DEFAULT_SETTINGS).cache.maxProfiles

\* C12: when a storage read or write fails, getCachedProfile returns absent
\* and a cacheProfile call is a no-op: the persisted cache after the call is
\* the persisted cache before it.
C12_StorageFailuresDegrade ==
  [][ /\ (lastOp' = "getCachedProfileOnStore" /\ op'.readFails) => ~result'.found
      /\ (lastOp' = "cacheProfileOnStore" /\ (op'.readFails \/ op'.writeFails)) =>
           storage' = storage
    ]_vars

\* the entries of the cache that hold a profile of the given account: the same
\* username up to letter case, on the same platform
EntriesFor(cache, username, platform) ==
  { i \in 1 .. Len(cache) :
      /\ toLowerCase(cache[i].value.profile.username) = toLowerCase(username)
      /\ cache[i].value.profile.platform = platform }

\* C13: a cacheProfile for an account leaves exactly one entry for it, however
\* the username is spelled, and adds an entry only if the account had none;
\* afterwards getCachedProfile finds the profile under every spelling on that
\* platform; entries of the other platform are untouched; getCachedProfile
\* finds a profile exactly if an unexpired entry of that account and platform
\* is stored, and returns that one.
C13_KeysFoldCaseAndKeepPlatforms ==
  [][ /\ lastOp' = "cacheProfile" =>
           LET X == op'.profile
           IN  /\ Cardinality(EntriesFor(storage', X.username, X.platform)) = 1
               /\ Len(storage') =
                    Len(storage)
                      + (IF EntriesFor(storage, X.username, X.platform) = {} THEN 1 ELSE 0)
               /\ \A u \in KeyUsernames :
                    LET r == getCachedProfile(storage', u, X.platform, now')
                    IN  r.found /\ r.profile = X
               /\ \A i \in 1 .. Len(storage) :
                    storage[i].value.profile.platform # X.platform =>
                      \E j \in 1 .. Len(storage') : storage'[j] = storage[i]
      /\ lastOp' = "getCachedProfile" =>
           LET mine == EntriesFor(storage, op'.username, op'.platform)
           IN  /\ result'.found <=> \E i \in mine : ~isExpired(storage[i].value, now)
               /\ result'.found => \E i \in mine : result'.profile = storage[i].value.profile
    ]_vars

\* a profile cached as one spelling is found under another while the same
\* account is also cached for the other platform
C13_Witness ==
  /\ lastOp = "getCachedProfile"
  /\ result.found
  /\ result.profile.username # op.username
  /\ result.profile.platform = op.platform
  /\ Len(storage) = 2

\* C14: clearExpiredProfiles removes exactly the entries whose expiresAt is
\* earlier than the current time, leaves every other entry as it was, returns
\* the number of entries it removed, and leaves no entry with expiresAt < now.
C14_SweepRemovesExactlyExpired ==
  [][ lastOp' = "clearExpiredProfiles" =>
        LET expired == { k \in KeysOf(storage) : ExpiresAtMs(storage, k) < now }
        IN  /\ KeysOf(storage') = KeysOf(storage) \ expired
            /\ \A k \in KeysOf(storage') : ValueOf(storage', k) = ValueOf(storage, k)
            /\ result'.removedCount = Cardinality(expired)
            /\ \A k \in KeysOf(storage') : ExpiresAtMs(storage', k) >= now'
    ]_vars

\* a sweep has removed an expired entry and kept one that expires at this instant
C14_Witness ==
  /\ lastOp = "clearExpiredProfiles"
  /\ result.removedCount >= 1
  /\ \E k \in KeysOf(storage) : ExpiresAtMs(storage, k) = now

\* C15: every entry of the persisted cache has expiresAt later than cachedAt,
\* whatever expiryHours the stored settings hand to cacheProfile.
C15_ExpiresAfterCached ==
  \A k \in KeysOf(storage) : ExpiresAtMs(storage, k) > CachedAtMs(storage, k)

\* the entries of a cache that have not expired at the given instant
Unexpired(cache, time) ==
  LET Alive(e) == parseDate(e.value.expiresAt) >= time
  IN  SelectSeq(cache, Alive)

BothSweepsDone == \A i \in Sweepers : sweeps[i].pc = "done"

\* the store as the first of the two sweeps read it
SweptBase == sweeps[CHOOSE i \in Sweepers : sweeps[i].first].base

\* C16: when two clearExpiredProfiles runs, back to back or interleaved at their
\* read and write steps, have both returned, the store is what a single run
\* leaves: the entries the first run read, without those expired at the instant
\* of one of the runs and with every other entry unchanged; and a run that
\* starts after the other has returned, at the same instant, returns 0.
C16_DuplicateSweepsAreHarmless ==
  BothSweepsDone =>
    /\ \E i \in Sweepers : storage = Unexpired(SweptBase, sweeps[i].now)
    /\ \A i \in Sweepers :
         (sweeps[i].after /\ sweeps[i].now = sweeps[Other(i)].now) =>
           sweeps[i].removedCount = 0

\* both runs read the store before either wrote, found an expired entry, and
\* an unexpired entry is left
C16_Witness ==
  /\ BothSweepsDone
  /\ \A i \in Sweepers : ~sweeps[i].after /\ sweeps[i].removedCount >= 1
  /\ \E i \in Sweepers : ~sweeps[i].first
  /\ Len(storage) >= 1

\* C17: shouldAlert(scored, alertLevel) is true exactly when the level of the
\* scored profile is at or above alertLevel in the order
\* none < low < medium < high < critical.
C17_AlertAtOrAboveLevel ==
  lastOp = "shouldAlert" =>
    (result.alert <=> Rank(profile.suspicionLevel) >= Rank(op.alertLevel))

\* a profile exactly at the alert level raises the alert
C17_Witness ==
  /\ lastOp = "shouldAlert"
  /\ profile.suspicionLevel = "high"
  /\ op.alertLevel = "high"
  /\ result.alert

\* C18: every profile whose account status has isViolator or isClosed set is
\* given the level critical by analyzeProfile, whatever its age, ratings and
\* game statistics.
C18_FlaggedAccountsAreCritical ==
  (Analysed /\ (\/ Truthy(profile.accountStatus, "isViolator")
                \/ Truthy(profile.accountStatus, "isClosed"))) =>
    profile.suspicionLevel = "critical"

NewStrongProfile ==
  NewProfile(3, [blitz |-> 2300], Stats(15, 13, 2, 0, 87), [isOnline |-> FALSE])

NewStrongProfileAnalysed ==
  /\ Analysed
  /\ Data(profile) = Data(NewStrongProfile)
  /\ CurrentThresholds = DEFAULT_THRESHOLDS

\* C20: for the account of 3 days with blitz 2300 and 13 wins in 15 games,
\* under the default thresholds, the age contribution is the cap 45, the
\* rating-vs-games contribution is 20 (25 x 0.8), the win-rate contribution is
\* 0, the total is at least 60 and below 70, and the level is high or critical.
C20_NewStrongProfileScoresInSixties ==
  NewStrongProfileAnalysed =>
    LET th == DEFAULT_THRESHOLDS
    IN  /\ RMin(Num(45), RMul(calculateAccountAgeScore(profile, th).score, Rat(3, 2)))
             = Num(45)
        /\ calculateRatingVsGamesScore(profile, th).score = Num(25)
        /\ RMin(Num(20), RMul(calculateRatingVsGamesScore(profile, th).score, Rat(4, 5)))
             = Num(20)
        /\ RMin(Num(15), RMul(calculateWinRateScore(profile, th).score, Rat(3, 4)))
             = Num(0)
        /\ RGe(profile.suspicionScore, Num(60))
        /\ RLt(profile.suspicionScore, Num(70))
        /\ profile.suspicionLevel \in {"high", "critical"}
        /\ Len(profile.suspicionReasons) = 2

C20_Witness ==
  /\ NewStrongProfileAnalysed
  /\ profile.suspicionScore = Num(65)
  /\ profile.suspicionLevel = "high"

\* C19: once the popup has saved thresholds T, every profile the background
\* analyses for PROFILES_DETECTED or ANALYZE_PROFILE carries the score, level
\* and reasons that scoring with T gives.
C19_SavedThresholdsTakeEffect ==
  (/\ lastOp \in {"profilesDetected", "analyzeProfileRequest"}
   /\ result.source = "analysis"
   /\ storedSettings.stored
   /\ "thresholds" \in DOMAIN storedSettings) =>
    LET T == storedSettings.thresholds
    IN  /\ profile.suspicionScore = calculateSuspicionScore(profile, T).score
        /\ profile.suspicionLevel =
             getSuspicionLevel(calculateSuspicionScore(profile, T).score)
        /\ profile.suspicionReasons = calculateSuspicionScore(profile, T).reasons

(***************************************************************************)
(* Properties of the sub-scores                                            *)
(***************************************************************************)
\* the five raw sub-scores of the analysed profile, in the order they are added
RawScores ==
  << calculateAccountAgeScore(profile, CurrentThresholds),
     calculateRatingVsGamesScore(profile, CurrentThresholds),
     calculateWinRateScore(profile, CurrentThresholds),
     calculateRapidImprovementScore(profile),
     calculateAccountStatusScore(profile) >>

Weights == << Rat(3, 2), Rat(4, 5), Rat(3, 4), Rat(67, 100), Num(1) >>
Caps == << Num(45), Num(20), Num(15), Num(10), Num(10) >>

\* what sub-score i adds to the total: weight times raw score, held at its cap
Contribution(i) ==
  LET weighted == RMul(RawScores[i].score, Weights[i])
  IN  IF RLt(Caps[i], weighted) THEN Caps[i] ELSE weighted

TotalOfContributions ==
  RAdd(RAdd(RAdd(RAdd(Contribution(1), Contribution(2)), Contribution(3)),
            Contribution(4)), Contribution(5))

\* C21: the stored score is the sum of the five contributions (age 1.5 up to
\* 45, rating-vs-games 0.8 up to 20, win rate 0.75 up to 15, rapid improvement
\* 0.67 up to 10, status with weight 1 up to 10 and possibly negative), held
\* between 0 and 100; no contribution is above its cap, and the status score
\* itself is never above 10.
C21_TotalIsCappedWeightedSum ==
  Analysed =>
    /\ profile.suspicionScore =
         (IF RLt(TotalOfContributions, Num(0)) THEN Num(0)
          ELSE IF RLt(Num(100), TotalOfContributions) THEN Num(100)
          ELSE TotalOfContributions)
    /\ \A i \in 1..5 : RLe(Contribution(i), Caps[i])
    /\ RLe(RawScores[5].score, Num(10))

\* the age and the rapid-improvement contributions are both held at their caps
\* (raw 15 * 0.67 = 10.05) and the total stays inside the clamp
C21_Witness ==
  /\ Analysed
  /\ RLt(Num(45), RMul(RawScores[1].score, Weights[1]))
  /\ RawScores[4].score = Num(15)
  /\ Contribution(4) = Num(10)
  /\ RLt(Num(0), profile.suspicionScore)
  /\ RLt(profile.suspicionScore, Num(100))
  /\ profile.suspicionScore = TotalOfContributions

\* Math.max(bullet || 0, blitz || 0, rapid || 0, classical || 0) of the analysed profile
TopRating ==
  LET r == profile.ratings
      rated == { r[k] : k \in (DOMAIN r) \cap {"bullet", "blitz", "rapid", "classical"} }
  IN  CHOOSE m \in rated \cup {0} : \A x \in rated \cup {0} : x <= m

\* the bonus of a tier: high when the top rating is above highRatingThreshold,
\* low when it is only above 1700
RatingBonus(high, low) ==
  IF TopRating > CurrentThresholds.highRatingThreshold THEN Num(high)
  ELSE IF TopRating > 1700 THEN Num(low)
  ELSE Num(0)

\* the closed form of the age sub-score for strictly increasing tier boundaries
ExpectedAgeScore ==
  LET age        == profile.accountAge
      critical   == CurrentThresholds.criticalAccountDays
      high       == CurrentThresholds.highSuspicionAccountDays
      suspicious == CurrentThresholds.suspiciousAccountDays
  IN  IF age < critical THEN
        RAdd(RSub(Num(30), Rat(30 * age, critical)), RatingBonus(10, 5))
      ELSE IF age < high THEN
        RAdd(RSub(Num(30), Rat(10 * (age - critical), high - critical)), RatingBonus(8, 4))
      ELSE IF age < suspicious THEN
        RAdd(RSub(Num(20), Rat(10 * (age - high), suspicious - high)), RatingBonus(6, 3))
      ELSE Num(0)

\* C22: for tier boundaries critical < high < suspicious the raw account-age
\* sub-score is 30 - 30*age/critical below critical, 30 - 10*(age - critical)/
\* (high - critical) below high, 20 - 10*(age - high)/(suspicious - high) below
\* suspicious, plus a bonus of 10/8/6 when the highest of the bullet, blitz,
\* rapid and classical ratings is above highRatingThreshold, else 5/4/3 when it
\* is above 1700; from suspicious days on it is 0 and gives no reason.
C22_AgeScoreByTier ==
  (Analysed /\ OrderedTiers(CurrentThresholds)) =>
    /\ RawScores[1].score = ExpectedAgeScore
    /\ profile.accountAge >= CurrentThresholds.suspiciousAccountDays =>
          /\ RawScores[1].score = Num(0)
          /\ RawScores[1].reason = <<>>
    /\ profile.accountAge < CurrentThresholds.suspiciousAccountDays =>
          Len(RawScores[1].reason) = 1

\* a second-tier account, strictly inside the tier, whose rapid rating alone
\* earns the smaller bonus of 4
C22_Witness ==
  /\ Analysed
  /\ OrderedTiers(CurrentThresholds)
  /\ CurrentThresholds.criticalAccountDays < profile.accountAge
  /\ profile.accountAge < CurrentThresholds.highSuspicionAccountDays
  /\ "rapid" \in DOMAIN profile.ratings
  /\ "blitz" \notin DOMAIN profile.ratings
  /\ TopRating > 1700
  /\ TopRating <= CurrentThresholds.highRatingThreshold
  /\ RawScores[1].score = RAdd(RSub(Num(30), Rat(150, 16)), Num(4))

\* the games a rating is expected to have needed, as a table of exclusive upper
\* bounds
ExpectedGamesTable ==
  << <<1200, 50>>, <<1500, 100>>, <<1800, 300>>, <<2000, 500>>, <<2200, 1000>>,
     <<2400, 2000>> >>

ExpectedGames(rating) ==
  LET rows == { i \in 1..Len(ExpectedGamesTable) : rating < ExpectedGamesTable[i][1] }
  IN  IF rows = {} THEN 3000
      ELSE ExpectedGamesTable[CHOOSE i \in rows : \A j \in rows : i <= j][2]

\* the row of the rating-vs-games table the analysed profile matches first
RatingVsGamesRow ==
  LET totalGames == profile.gameStats.total
      minGames   == CurrentThresholds.minGamesRequired
  IN  IF totalGames < minGames /\ TopRating > CurrentThresholds.highRatingThreshold THEN 1
      ELSE IF RLt(Num(totalGames), RMul(Rat(6, 10), Num(minGames))) /\ TopRating > 1800 THEN 2
      ELSE IF totalGames < 2 * minGames /\ TopRating > 2200 THEN 3
      ELSE IF RLt(Num(totalGames), RMul(Rat(3, 10), Num(ExpectedGames(TopRating)))) THEN 4
      ELSE 5

RatingVsGamesPoints == << 25, 20, 15, 10, 0 >>

\* C23: the rating-vs-games sub-score is the points of the first matching row
\* of: games < minGamesRequired and top rating > highRatingThreshold -> 25;
\* games < 0.6 * minGamesRequired and top rating > 1800 -> 20; games < 2 *
\* minGamesRequired and top rating > 2200 -> 15; games < 0.3 * expected games
\* of the top rating -> 10; otherwise 0, for every profile and every threshold
\* setting.
C23_RatingVsGamesTable ==
  Analysed => RawScores[2].score = Num(RatingVsGamesPoints[RatingVsGamesRow])

\* a 1200-rated account with 21 games: rows 1 to 3 do not match and the games
\* are below 0.3 * 100
C23_Witness ==
  /\ Analysed
  /\ TopRating = 1200
  /\ profile.gameStats.total = 21
  /\ RatingVsGamesRow = 4
  /\ RawScores[2].score = Num(10)

\* the rows of the win-rate table: the win rate must be strictly above (or,
\* for the last row, strictly below) the first number, the games strictly
\* above the second
WinRateRows ==
  << [above |-> 85, games |-> 20, points |-> 20],
     [above |-> 80, games |-> 50, points |-> 15],
     [above |-> CurrentThresholds.suspiciousWinRate, games |-> 100, points |-> 10],
     [below |-> 15, games |-> 50, points |-> 10] >>

WinRateRowMatches(i) ==
  LET row == WinRateRows[i]
  IN  /\ profile.gameStats.total > row.games
      /\ IF "above" \in DOMAIN row
         THEN profile.gameStats.winRate > row.above
         ELSE profile.gameStats.winRate < row.below

WinRatePoints ==
  LET matching == { i \in 1..Len(WinRateRows) : WinRateRowMatches(i) }
  IN  IF matching = {} THEN 0
      ELSE WinRateRows[CHOOSE i \in matching : \A j \in matching : i <= j].points

\* C24: the win-rate sub-score is the points of the first matching row of:
\* win rate > 85 and games > 20 -> 20; win rate > 80 and games > 50 -> 15;
\* win rate > suspiciousWinRate and games > 100 -> 10; win rate < 15 and
\* games > 50 -> 10; otherwise 0.  All comparisons are strict: a win rate of
\* 85 with 21 games and a win rate of 87 with exactly 20 games do not get the
\* 20 points of the first row.
C24_WinRateTable ==
  Analysed =>
    /\ RawScores[3].score = Num(WinRatePoints)
    /\ (profile.gameStats.winRate = 85 /\ profile.gameStats.total = 21) =>
          RawScores[3].score # Num(20)
    /\ (profile.gameStats.winRate = 87 /\ profile.gameStats.total = 20) =>
          RawScores[3].score # Num(20)

\* 87 % over exactly 20 games: no row matches
C24_Witness ==
  /\ Analysed
  /\ profile.gameStats.winRate = 87
  /\ profile.gameStats.total = 20
  /\ RawScores[3].score = Num(0)
  /\ RawScores[3].reason = <<>>

\* the flag is present in the analysed profile's accountStatus with this value
StatusFlagIs(flag, value) ==
  /\ flag \in DOMAIN profile.accountStatus
  /\ profile.accountStatus[flag] = value

FlaggedByPlatform == StatusFlagIs("isViolator", TRUE) \/ StatusFlagIs("isClosed", TRUE)

\* C25: the account-status sub-score is +10 for a violator or a closed
\* account; otherwise +8 when isFairPlay is exactly false; otherwise -5 for a
\* verified account; otherwise 0.  A verified account that is also flagged
\* gets +10, and an account without an isFairPlay flag never gets the +8.
C25_StatusTable ==
  Analysed =>
    /\ RawScores[5].score =
         (IF FlaggedByPlatform THEN Num(10)
          ELSE IF StatusFlagIs("isFairPlay", FALSE) THEN Num(8)
          ELSE IF StatusFlagIs("isVerified", TRUE) THEN Num(-5)
          ELSE Num(0))
    /\ (StatusFlagIs("isVerified", TRUE) /\ FlaggedByPlatform) =>
          RawScores[5].score = Num(10)
    /\ "isFairPlay" \notin DOMAIN profile.accountStatus =>
          RawScores[5].score # Num(8)

\* a verified account that the platform has closed
C25_Witness ==
  /\ Analysed
  /\ StatusFlagIs("isVerified", TRUE)
  /\ StatusFlagIs("isClosed", TRUE)
  /\ RawScores[5].score = Num(10)

\* the sub-scores that added or took away points in the last analysis
Contributing == { i \in 1..5 : RawScores[i].score # Num(0) }

\* C26: after analyzeProfile the profile's suspicionReasons holds exactly one
\* string per sub-score that contributed non-zero points, in the order age,
\* rating-vs-games, win rate, rapid improvement, account status, and is empty
\* exactly when no sub-score contributed; reasons the profile carried before
\* are replaced.
C26_OneReasonPerContribution ==
  Analysed =>
    /\ profile.suspicionReasons =
         RawScores[1].reason \o RawScores[2].reason \o RawScores[3].reason
           \o RawScores[4].reason \o RawScores[5].reason
    /\ \A i \in 1..5 : Len(RawScores[i].reason) = (IF i \in Contributing THEN 1 ELSE 0)
    /\ (profile.suspicionReasons = <<>>) <=> (Contributing = {})

(***************************************************************************)
(* Properties of overlapping handlers                                      *)
(***************************************************************************)
\* handler i has completed a cacheProfile call
Cached(i) == inFlight[i].pc = "done" /\ inFlight[i].name = "cacheProfile"

\* the entry handler i wrote is the one the persisted cache holds under its key
Persisted(i) ==
  /\ HasKey(storage, inFlight[i].key)
  /\ ValueOf(storage, inFlight[i].key) = inFlight[i].entry

\* C27: when two cacheProfile calls for different keys have both completed,
\* overlapping or not, and nothing else touched the cache meanwhile, the
\* persisted cache holds both entries (two entries are within the capacity).
C27_ConcurrentWritesKeepBoth ==
  ( /\ \A i \in Handlers : Cached(i)
    /\ inFlight[1].key # inFlight[2].key
    /\ sweeps = NoSweeps ) =>
    \A i \in Handlers : Persisted(i)

\* C28: when a cacheProfile call has completed whose entry is still unexpired,
\* and the only other calls since it started were a getCachedProfile (with its
\* removal of an expired entry) or an expiry sweep, all of them completed,
\* the persisted cache still holds that entry.
C28_EvictionSparesFreshEntries ==
  \A i \in Handlers :
    ( /\ Cached(i)
      /\ ~isExpired(inFlight[i].entry, now)
      /\ ~Cached(OtherHandler(i))
      /\ AllSettled ) =>
      Persisted(i)

(***************************************************************************)
(* Properties of the PROFILES_DETECTED handler                             *)
(***************************************************************************)
\* the settings handleProfilesDetected works with: the stored ones over the defaults
MergedSettings == getSettings(storedSettings, DEFAULT_SETTINGS)

\* every entry of the cache `after` was already in the cache `before`
NoNewEntry(before, after) ==
  \A i \in 1 .. Len(after) :
    /\ HasKey(before, after[i].key)
    /\ ValueOf(before, after[i].key) = after[i].value

\* C29: while settings.cache.enabled is false, a PROFILES_DETECTED request
\* neither answers with a profile taken from the cache nor writes an entry to
\* the cache: the profile it returns comes from a fresh fetch and analysis.
C29_DisabledCacheIsNotUsed ==
  [][ ( /\ lastOp' = "profilesDetected"
        /\ storedSettings.stored
        /\ ~MergedSettings.cache.enabled ) =>
      ( /\ result'.source = "analysis"
        /\ NoNewEntry(storage, storage') ) ]_vars

\* C30: a detected username for which the PROFILES_DETECTED response carries
\* an analysed profile gets its badge: the content script, looking the
\* response up by the username it detected, finds that profile, also when the
\* username has upper-case letters.
C30_DetectedUsernameGetsBadge ==
  (lastOp = "profilesDetected" /\ DOMAIN result.profiles # {}) =>
    /\ injectedBadge(result, op.username).injected
    /\ injectedBadge(result, op.username).profileData = profile
====
